---------------------------- MODULE Spec2Model ----------------------------
(***************************************************************************)
(* The request execution pipeline of the cbapiclient HTTP client: package  *)
(* level defaults, the Client struct and its fluent setters, and           *)
(* Do/doInternal with the REQ014 header gate, the payload codec, the       *)
(* statsd / tracing instrumentation and the optional circuit breaker.      *)
(***************************************************************************)
EXTENDS Integers, Sequences, FiniteSets, TLC

(***************************************************************************)
(* Bounds of the model                                                     *)
(***************************************************************************)
\* number of configuration calls (SetDefaults, setters, field writes)
MaxSetup == 2
\* number of Do / verb calls made on the client
MaxCalls == 2
\* number of RawResponse() calls made after one Do call
MaxReads == 2

(***************************************************************************)
(* Program constants                                                       *)
(***************************************************************************)
requestIDHeader      == "Request-ID"
requestSourceHeader  == "Request-Source"
callingServiceHeader == "Calling-Service"
jsonType             == "application/json"
contentTypeHeader    == "Content-Type"
userAgentHeader      == "User-Agent"
contentLengthHeader  == "Content-Length"
acceptHeader         == "Accept"

StatusOK                  == 200
StatusMultipleChoices     == 300
StatusInternalServerError == 500
StatusFailedDependency    == 424

MethodGet    == "GET"
MethodPost   == "POST"
MethodPut    == "PUT"
MethodPatch  == "PATCH"
MethodDelete == "DELETE"

\* the error values the pipeline creates or receives ("" is the nil error)
NoErr          == ""
ErrEndpoint    == "endpoint for request not set"
ErrReq014      == "request tracing header requirements check failed"
ErrByteSlice   == "the payload cannot be converted to a byte slice"
ErrMarshal     == "json: unsupported type: func() bool"
ErrBadMethod   == "net/http: invalid method"
ErrTransport   == "FAIL"
ErrTimeout     == "timeout"
ErrRedirect    == "stopped after 10 redirects"
ErrRead        == "read body failed"
ErrDecode      == "invalid character '<' looking for beginning of value"
ErrEmptyURL    == "parse: empty url"
ErrBreakerOpen == "circuit breaker is open"

(***************************************************************************)
(* Input alphabets                                                         *)
(***************************************************************************)
\* a header key the caller spells in lower case
EmptyURI == ""
GoodURI == "http://www.invisionapp.com"

lowerRequestSource == "request-source"
textType  == "text/plain"
htmlType  == "text/html"
BadMethod == "bad method"

\* status codes a server answers with: both edges of [200,300) and a 4xx
StatusCodes == {199, 200, 299, 300, 403}
\* response bodies: none, a JSON document fitting the target, text that is
\* not JSON
Bodies == {"", "json", "notjson"}
ResponseTypes == {jsonType, htmlType}

\* payload values: nil, a struct, a func, the string ab, the three bytes "t"
Payloads == {"nil", "struct", "func", "string", "bytes"}

\* what a provider function of the caller can answer for one context
ProviderAnswers ==
  { [value |-> "prov", ok |-> TRUE],
    [value |-> "",     ok |-> TRUE],
    [value |-> "",     ok |-> FALSE] }

\* the transport's answers
Response(st, ct, b) == [present |-> TRUE, status |-> st, ct |-> ct, body |-> b]

NoResponse == [present |-> FALSE, status |-> 0, ct |-> "", body |-> ""]

Answered(r) == [response |-> r, err |-> ""]

OK200 == Answered(Response(200, jsonType, "json"))

Forbidden403 == Answered(Response(403, jsonType, "json"))

\* an error without a response
Failed(e) == [response |-> NoResponse, err |-> e]

\* the last response together with the error of a refused redirect
Redirected == [response |-> Response(302, htmlType, ""), err |-> ErrRedirect]

\* the verb calls made: the verb, the method argument of Do, the payload
Shape(verb, methodArg, payload) ==
  [verb |-> verb, methodArg |-> methodArg, payload |-> payload]

GetNil == Shape("Get", "GET", "nil")

(***************************************************************************)
(* What each scenario offers.  A run is made in one scenario: "gate" varies *)
(* the defaults, the headers and the provider answers; "codec" the verbs,  *)
(* payloads, content type and the failures before dispatch; "decode" the   *)
(* decode targets and the server's answers; "instrument" the statsd        *)
(* delegate, the tracer and the New Relic transaction.                     *)
(***************************************************************************)
Scenarios == {"gate", "codec", "decode", "instrument"}

\* SERVICE_NAME and HOSTNAME
OfferedEnv(s) ==
  IF s = "gate" THEN {<<"", "">>, <<"svc", "host">>} ELSE {<<"svc", "host">>}

OfferedHeaders(s) ==
  CASE s = "gate"  -> ({"Request-ID", "Request-Source", "Calling-Service"}
                         \X {"", "caller"}) \cup {<<lowerRequestSource, "caller">>}
    [] s = "codec" -> {<<"Content-Type", textType>>}
    [] OTHER       -> {}

OfferedContentTypes(s) ==
  IF s \in {"codec", "decode"} THEN {jsonType, textType} ELSE {}

OfferedCustomPrototypes(s) ==
  IF s = "decode" THEN {<<403, "set">>, <<200, "set">>, <<403, "nil">>} ELSE {}

OfferedStatsd(s) ==
  IF s = "instrument"
  THEN {[stat |-> "", tags |-> <<>>], [stat |-> "stat", tags |-> <<"tag">>]}
  ELSE {}

OfferedShapes(s) ==
  CASE s = "codec" ->
         {GetNil, Shape("Put", "PUT", "struct"), Shape("Patch", "PATCH", "struct"),
          Shape("Delete", "DELETE", "nil"), Shape("Do", "POST", "struct"),
          Shape("Do", "GET", "nil")}
         \cup {Shape("Post", "POST", p) : p \in Payloads}
    [] s = "instrument" -> {GetNil, Shape("Post", "POST", "func")}
    [] OTHER -> {GetNil}

OfferedAnswers(s) ==
  IF s = "gate" THEN ProviderAnswers ELSE {[value |-> "prov", ok |-> TRUE]}

OfferedNRTx(s) == IF s = "instrument" THEN {TRUE, FALSE} ELSE {TRUE}

OfferedResults(s) ==
  CASE s = "gate"  -> {OK200}
    [] s = "codec" -> {OK200, Failed(ErrTransport)}
    [] s = "decode" ->
         {Answered(Response(st, ct, b)) :
            st \in StatusCodes, ct \in ResponseTypes, b \in Bodies}
         \cup {Failed(ErrTransport), Failed(ErrTimeout), Redirected}
    [] OTHER -> {OK200, Forbidden403, Failed(ErrTimeout),
                 Answered(Response(StatusOK, jsonType, "notjson"))}

OfferedReads(s) == IF s = "decode" THEN {TRUE, FALSE} ELSE {TRUE}

\* the URIs NewClient is called with
OfferedURIs(s) == IF s = "instrument" THEN {EmptyURI, GoodURI} ELSE {GoodURI}

(***************************************************************************)
(* Header maps: functions from a set of keys to values                     *)
(***************************************************************************)
EmptyMap == [k \in {} |-> ""]

Put(h, k, v) == [x \in (DOMAIN h) \cup {k} |-> IF x = k THEN v ELSE h[x]]

Del(h, k) == [x \in (DOMAIN h) \ {k} |-> h[x]]

Has(h, k) == k \in DOMAIN h

\* Go's map index on a missing key yields the zero value
Get(h, k) == IF k \in DOMAIN h THEN h[k] ELSE ""

\* textproto.CanonicalMIMEHeaderKey as http.Header.Set applies it
Canon(k) ==
  CASE k = "Request-ID"     -> "Request-Id"
    [] k = "request-source" -> "Request-Source"
    [] OTHER                -> k

(***************************************************************************)
(* Package level state                                                     *)
(***************************************************************************)
VARIABLES
  scenario,  \* which inputs the caller and the server offer in this run
  pkg,       \* the package level variables
  c,         \* the Client
  call,      \* the call in progress or last made, with what it was seen to do
  pc,        \* where the call in progress stands
  nSetup,    \* configuration calls made
  nCalls,    \* Do calls made
  newClientRet  \* the URI of the last NewClient call and the error it returned

vars == <<scenario, pkg, c, call, pc, nSetup, nCalls, newClientRet>>

\* the Defaults values SetDefaults is called with
DefaultsZero ==
  [ ServiceName |-> "", UserAgent |-> "",
    NewRelicTransactionProviderFunc |-> "nil", TracerProviderFunc |-> "nil",
    ContextLoggerProviderFunc |-> "nil", RequestIDProviderFunc |-> "nil",
    RequestSourceProviderFunc |-> "nil", StrictREQ014 |-> FALSE,
    StatsdRate |-> 0, StatsdSuccessTag |-> "", StatsdFailureTag |-> "" ]

\* every field set
DefaultsAll ==
  [ ServiceName |-> "unit-test", UserAgent |-> "unit-test",
    NewRelicTransactionProviderFunc |-> "custom", TracerProviderFunc |-> "custom",
    ContextLoggerProviderFunc |-> "custom", RequestIDProviderFunc |-> "custom",
    RequestSourceProviderFunc |-> "custom", StrictREQ014 |-> FALSE,
    StatsdRate |-> 1, StatsdSuccessTag |-> "success", StatsdFailureTag |-> "failed" ]

DefaultsAllStrict == [DefaultsAll EXCEPT !.StrictREQ014 = TRUE]

\* strict, with a service name but no provider function
DefaultsStrictOnly ==
  [DefaultsZero EXCEPT !.ServiceName = "unit-test", !.StrictREQ014 = TRUE]

\* the two header providers set, the New Relic provider and the tracer not
DefaultsHeaderProviders ==
  [DefaultsZero EXCEPT !.RequestIDProviderFunc = "custom",
                       !.RequestSourceProviderFunc = "custom"]

OfferedDefaults(s) ==
  CASE s = "gate" -> {DefaultsZero, DefaultsAll, DefaultsAllStrict, DefaultsStrictOnly}
    [] s = "instrument" -> {DefaultsZero, DefaultsAll, DefaultsHeaderProviders,
                            DefaultsStrictOnly}
    [] OTHER -> {}

\* the package variables before any call
PkgZero ==
  [ pkgServiceName |-> "", pkgUserAgent |-> "",
    pkgNRTxnProviderFunc |-> "nil", pkgTracerProviderFunc |-> "nil",
    pkgCtxLoggerProviderFunc |-> "nil", pkgRequestIDProviderFunc |-> "nil",
    pkgRequestSourceProviderFunc |-> "nil", pkgStrictREQ014 |-> FALSE,
    pkgStatsdRate |-> 0, pkgStatsdSuccessTag |-> "", pkgStatsdFailureTag |-> "",
    pkgOnce |-> FALSE ]

\* SetDefaults copies every field, set or not
SetDefaultsInto(p, d) ==
  [ p EXCEPT
      !.pkgServiceName = d.ServiceName,
      !.pkgNRTxnProviderFunc = d.NewRelicTransactionProviderFunc,
      !.pkgCtxLoggerProviderFunc = d.ContextLoggerProviderFunc,
      !.pkgRequestIDProviderFunc = d.RequestIDProviderFunc,
      !.pkgRequestSourceProviderFunc = d.RequestSourceProviderFunc,
      !.pkgUserAgent = d.UserAgent,
      !.pkgStrictREQ014 = d.StrictREQ014,
      !.pkgStatsdRate = d.StatsdRate,
      !.pkgStatsdSuccessTag = d.StatsdSuccessTag,
      !.pkgStatsdFailureTag = d.StatsdFailureTag,
      !.pkgTracerProviderFunc = d.TracerProviderFunc ]

\* the value a provider left nil is replaced with by the lazy fill
FillFunc(f) == IF f = "nil" THEN "fallback" ELSE f

\* a variant without the sync.Once: the fill body runs on every call
ensurePackageVariables_NoOnce(p, envService, envHost) ==
  LET sn == IF p.pkgServiceName = ""
            THEN (IF envService = "" THEN envHost ELSE envService)
            ELSE p.pkgServiceName
      ua == IF p.pkgUserAgent = ""
            THEN (IF sn = envHost THEN sn ELSE sn \o "-" \o envHost)
            ELSE p.pkgUserAgent
  IN [ p EXCEPT
         !.pkgServiceName = sn,
         !.pkgUserAgent = ua,
         !.pkgNRTxnProviderFunc = FillFunc(@),
         !.pkgCtxLoggerProviderFunc = FillFunc(@),
         !.pkgRequestIDProviderFunc = FillFunc(@),
         !.pkgRequestSourceProviderFunc = FillFunc(@),
         !.pkgStatsdSuccessTag = IF @ = "" THEN "processed:success" ELSE @,
         !.pkgStatsdFailureTag = IF @ = "" THEN "processed:failure" ELSE @,
         !.pkgOnce = TRUE ]

\* the body pkgOnce.Do runs, with the environment it reads
ensurePackageVariables(p, envService, envHost) ==
  IF p.pkgOnce THEN p
  ELSE
    LET sn == IF p.pkgServiceName = ""
              THEN (IF envService = "" THEN envHost ELSE envService)
              ELSE p.pkgServiceName
        ua == IF p.pkgUserAgent = ""
              THEN (IF sn = envHost THEN sn ELSE sn \o "-" \o envHost)
              ELSE p.pkgUserAgent
    IN [ p EXCEPT
           !.pkgServiceName = sn,
           !.pkgUserAgent = ua,
           !.pkgNRTxnProviderFunc = FillFunc(@),
           !.pkgCtxLoggerProviderFunc = FillFunc(@),
           !.pkgRequestIDProviderFunc = FillFunc(@),
           !.pkgRequestSourceProviderFunc = FillFunc(@),
           !.pkgStatsdSuccessTag = IF @ = "" THEN "processed:success" ELSE @,
           !.pkgStatsdFailureTag = IF @ = "" THEN "processed:failure" ELSE @,
           !.pkgOnce = TRUE ]

(***************************************************************************)
(* The Client struct                                                       *)
(***************************************************************************)
NoCodes == [k \in {} |-> "nil"]

\* the zero Client, before NewClient has made one
ClientZero ==
  [ made |-> FALSE,
    prototype |-> "nil", errorPrototype |-> "nil", customPrototypes |-> NoCodes,
    endpoint |-> "nil", cb |-> "nil",
    responseIsError |-> FALSE,
    headers |-> EmptyMap,
    method |-> "",
    keepRawResponse |-> FALSE, rawresponse |-> "",
    statsdClient |-> "nil", statsdStat |-> "", statsdTags |-> <<>>,
    internalError |-> FALSE,
    externalSegment |-> "zero", openTracingSpan |-> "nil",
    statusCode |-> 0 ]

\* what NewClient returned last: nothing yet, before the first call
NoNewClient == [uri |-> "", err |-> NoErr]

\* url.ParseRequestURI: the error it returns, NoErr for a URI it accepts
ParseRequestURI(uri) == IF uri = EmptyURI THEN ErrEmptyURL ELSE NoErr

\* a variant whose header map has no Accept entry
NewClientValue_NoAccept(p) ==
  [ ClientZero EXCEPT
      !.made = TRUE,
      !.endpoint = "url",
      !.method = MethodGet,
      !.headers = Put(Put(Put(EmptyMap,
                     userAgentHeader, p.pkgUserAgent),
                     contentTypeHeader, jsonType),
                     callingServiceHeader, p.pkgServiceName) ]

\* the Client NewClient builds from the package variables
NewClientValue(p) ==
  [ ClientZero EXCEPT
      !.made = TRUE,
      !.endpoint = "url",
      !.method = MethodGet,
      !.headers = Put(Put(Put(Put(EmptyMap,
                     userAgentHeader, p.pkgUserAgent),
                     contentTypeHeader, jsonType),
                     callingServiceHeader, p.pkgServiceName),
                     acceptHeader, jsonType) ]

\* a variant that does not put Accept back for application/json
SetContentTypeIn_NoRestore(h, ct) ==
  IF ct # jsonType
  THEN Del(Put(h, contentTypeHeader, ct), acceptHeader)
  ELSE Put(h, contentTypeHeader, ct)

\* SetContentType on a header map
SetContentTypeIn(h, ct) ==
  IF ct # jsonType
  THEN Del(Put(h, contentTypeHeader, ct), acceptHeader)
  ELSE Put(Put(h, contentTypeHeader, ct), acceptHeader, jsonType)

\* SetHeader on a header map
SetHeaderIn(h, key, value) ==
  IF key = contentTypeHeader THEN SetContentTypeIn(h, value) ELSE Put(h, key, value)

(***************************************************************************)
(* One call in progress, and what it has been observed to do               *)
(***************************************************************************)
NoRet == [kind |-> "none", status |-> 0, err |-> NoErr]

\* what cb.Execute handed back to Do: sc 0 is the nil interface value
NoResult == [sc |-> 0, err |-> NoErr]

\* a provider that was not asked
NoAnswer == [value |-> "", ok |-> FALSE]

CallZero ==
  [ verb |-> "", methodArg |-> "", payload |-> "nil", viaCB |-> FALSE,
    rid |-> NoAnswer, src |-> NoAnswer,
    payloadBytes |-> "", built |-> FALSE, wire |-> EmptyMap, wireMethod |-> "",
    response |-> NoResponse, responseErr |-> NoErr, body |-> "",
    transportCalls |-> 0, cbExecCalls |-> 0, cbOut |-> NoResult,
    errLogs |-> 0, warnLogs |-> 0, infoLogs |-> 0,
    incr |-> <<>>, timing |-> <<>>,
    segStarts |-> 0, segEnds |-> 0, spanStarts |-> 0, spanFinishes |-> 0,
    saturated |-> {},
    rawReads |-> <<>>,
    ret |-> NoRet ]

Init ==
  /\ scenario \in Scenarios
  /\ pkg = PkgZero
  /\ c = ClientZero
  /\ call = CallZero
  /\ pc = "idle"
  /\ nSetup = 0
  /\ nCalls = 0
  /\ newClientRet = NoNewClient

\* no call is in progress
Idle == pc \in {"idle", "done"}


(***************************************************************************)
(* Configuration: package functions, fluent setters, in-package writes     *)
(***************************************************************************)
Configure(newPkg, newC) ==
  /\ Idle
  /\ nSetup < MaxSetup
  /\ nSetup' = nSetup + 1
  /\ pkg' = newPkg
  /\ c' = newC
  /\ UNCHANGED <<scenario, call, pc, nCalls, newClientRet>>

SetDefaults ==
  \E d \in OfferedDefaults(scenario) : Configure(SetDefaultsInto(pkg, d), c)

\* NewClient: the lazy fill first, then the URI is parsed; a URI that does
\* not parse yields a nil client and the parser's error
NewClient ==
  /\ Idle
  /\ ~c.made
  /\ \E env \in OfferedEnv(scenario), uri \in OfferedURIs(scenario) :
       LET p   == ensurePackageVariables(pkg, env[1], env[2])
           err == ParseRequestURI(uri)
       IN /\ pkg' = p
          /\ c' = IF err # NoErr THEN c ELSE NewClientValue(p)
          /\ newClientRet' = [uri |-> uri, err |-> err]
  /\ UNCHANGED <<scenario, call, pc, nSetup, nCalls>>

SetHeader ==
  /\ c.made
  /\ \E kv \in OfferedHeaders(scenario) :
       Configure(pkg, [c EXCEPT !.headers = SetHeaderIn(@, kv[1], kv[2])])

SetContentType ==
  /\ c.made
  /\ \E ct \in OfferedContentTypes(scenario) :
       Configure(pkg, [c EXCEPT !.headers = SetContentTypeIn(@, ct)])

KeepRawResponse ==
  /\ c.made
  /\ scenario = "decode"
  /\ Configure(pkg, [c EXCEPT !.keepRawResponse = TRUE])

WillSaturate ==
  /\ c.made
  /\ scenario \in {"decode", "codec", "instrument"}
  /\ Configure(pkg, [c EXCEPT !.prototype = "set"])

WillSaturateOnError ==
  /\ c.made
  /\ scenario = "decode"
  /\ Configure(pkg, [c EXCEPT !.errorPrototype = "set"])

WillSaturateWithStatusCode ==
  /\ c.made
  /\ \E cp \in OfferedCustomPrototypes(scenario) :
       Configure(pkg, [c EXCEPT !.customPrototypes = Put(@, cp[1], cp[2])])

SetCircuitBreaker ==
  /\ c.made
  /\ scenario \in {"gate", "codec"}
  /\ Configure(pkg, [c EXCEPT !.cb = "set"])

SetStatsdDelegate ==
  /\ c.made
  /\ \E sd \in OfferedStatsd(scenario) :
       Configure(pkg, [c EXCEPT
         !.statsdClient = "set",
         !.statsdTags = sd.tags,
         !.statsdStat = "cbapiclient." \o (IF sd.stat = "" THEN "default" ELSE sd.stat)])

\* writes the package's own tests make to the struct's fields
ClearEndpoint ==
  /\ c.made
  /\ scenario \in {"codec", "instrument"}
  /\ Configure(pkg, [c EXCEPT !.endpoint = "nil"])

WriteBadMethod ==
  /\ c.made
  /\ scenario = "codec"
  /\ Configure(pkg, [c EXCEPT !.method = BadMethod])

DeleteCallingService ==
  /\ c.made
  /\ scenario = "gate"
  /\ Configure(pkg, [c EXCEPT !.headers = Del(@, callingServiceHeader)])

(***************************************************************************)
(* Pure parts of the pipeline                                              *)
(***************************************************************************)
\* a variant that leaves a value the caller has set in place
applyContextDependentHeaders_KeepsCaller(h, rid, src) ==
  LET h1 == IF rid.ok /\ ~Has(h, requestIDHeader)
            THEN Put(h, requestIDHeader, rid.value) ELSE h
  IN IF src.ok /\ ~Has(h1, requestSourceHeader)
     THEN Put(h1, requestSourceHeader, src.value) ELSE h1

\* applyContextDependentHeaders: a header is written only when its provider
\* answers ok
applyContextDependentHeaders(h, rid, src) ==
  LET h1 == IF rid.ok THEN Put(h, requestIDHeader, rid.value) ELSE h
  IN IF src.ok THEN Put(h1, requestSourceHeader, src.value) ELSE h1

\* what a provider function answers: the fallbacks of the lazy fill answer
\* one fixed pair, a function of the caller any of ProviderAnswers
RequestIDAnswers(f, offered) ==
  IF f = "fallback" THEN {[value |-> "", ok |-> TRUE]} ELSE offered

RequestSourceAnswers(f, offered) ==
  IF f = "fallback" THEN {[value |-> "", ok |-> FALSE]} ELSE offered

NRTxnAnswers(f, offered) ==
  IF f = "fallback" THEN {FALSE} ELSE offered

\* json.Marshal of a payload value: the bytes, or "" with an error
MarshalBytes(payload) ==
  CASE payload = "struct" -> "{}"
    [] payload = "string" -> "\"ab\""
    [] payload = "bytes"  -> "\"InQi\""
    [] OTHER              -> ""

\* the bytes of a payload under a content type other than JSON
RawBytes(payload) ==
  CASE payload = "string" -> "ab"
    [] payload = "bytes"  -> "\"t\""
    [] OTHER              -> ""

\* a variant whose type switch has no case for a string
processOutgoingPayload_NoStringCase(h, payload) ==
  IF payload = "nil"
  THEN [bytes |-> "", err |-> NoErr, headers |-> h]
  ELSE IF Get(h, contentTypeHeader) = jsonType
  THEN IF payload = "func"
       THEN [bytes |-> "", err |-> ErrMarshal, headers |-> h]
       ELSE [bytes |-> MarshalBytes(payload), err |-> NoErr,
             headers |-> Put(h, contentLengthHeader, ToString(Len(MarshalBytes(payload))))]
  ELSE IF payload = "bytes"
       THEN [bytes |-> RawBytes(payload), err |-> NoErr,
             headers |-> Put(h, contentLengthHeader, ToString(Len(RawBytes(payload))))]
       ELSE [bytes |-> "", err |-> ErrByteSlice, headers |-> h]

\* a variant that sets Content-Length outside the test for a nil payload
processOutgoingPayload_LengthOnNil(h, payload) ==
  IF payload = "nil"
  THEN [bytes |-> "", err |-> NoErr, headers |-> Put(h, contentLengthHeader, "0")]
  ELSE IF Get(h, contentTypeHeader) = jsonType
  THEN IF payload = "func"
       THEN [bytes |-> "", err |-> ErrMarshal, headers |-> h]
       ELSE [bytes |-> MarshalBytes(payload), err |-> NoErr,
             headers |-> Put(h, contentLengthHeader, ToString(Len(MarshalBytes(payload))))]
  ELSE IF payload \in {"string", "bytes"}
       THEN [bytes |-> RawBytes(payload), err |-> NoErr,
             headers |-> Put(h, contentLengthHeader, ToString(Len(RawBytes(payload))))]
       ELSE [bytes |-> "", err |-> ErrByteSlice, headers |-> h]

\* processOutgoingPayload: the bytes, the error and the header map after it
processOutgoingPayload(h, payload) ==
  IF payload = "nil"
  THEN [bytes |-> "", err |-> NoErr, headers |-> h]
  ELSE IF Get(h, contentTypeHeader) = jsonType
  THEN IF payload = "func"
       THEN [bytes |-> "", err |-> ErrMarshal, headers |-> h]
       ELSE [bytes |-> MarshalBytes(payload), err |-> NoErr,
             headers |-> Put(h, contentLengthHeader, ToString(Len(MarshalBytes(payload))))]
  ELSE IF payload \in {"string", "bytes"}
       THEN [bytes |-> RawBytes(payload), err |-> NoErr,
             headers |-> Put(h, contentLengthHeader, ToString(Len(RawBytes(payload))))]
       ELSE [bytes |-> "", err |-> ErrByteSlice, headers |-> h]

\* http.NewRequest rejects a method that is not a token
ValidMethod(m) == m # BadMethod

\* the three flags of req014HeaderCheck after the loop over c.headers
req014HeaderCheck(h) ==
  [ requestIDOK      |-> Has(h, requestIDHeader),
    requestSourceOK  |-> Has(h, requestSourceHeader),
    callingServiceOK |-> Has(h, callingServiceHeader) ]

\* a variant that forgets the Request-Source flag
ok_TwoFlags(check) == check.requestIDOK /\ check.callingServiceOK

ok(check) == check.requestIDOK /\ check.requestSourceOK /\ check.callingServiceOK

\* a variant that enforces the check whatever pkgStrictREQ014 says
conformsToReq014_Always(h, strict) ==
  IF ~ok(req014HeaderCheck(h)) THEN ErrReq014 ELSE NoErr

\* conformsToReq014: the error it returns
conformsToReq014(h, strict) ==
  IF strict /\ ~ok(req014HeaderCheck(h)) THEN ErrReq014 ELSE NoErr

\* the request headers request.Header.Set leaves after the loop over the
\* map, whose order Go does not fix: two keys with one canonical form leave
\* the value of whichever the loop visits last
RECURSIVE WireFrom(_, _)
WireFrom(h, canonKeys) ==
  IF canonKeys = {} THEN {EmptyMap}
  ELSE LET ck == CHOOSE x \in canonKeys : TRUE
       IN { Put(w, ck, v) :
              w \in WireFrom(h, canonKeys \ {ck}),
              v \in {h[k] : k \in {x \in DOMAIN h : Canon(x) = ck}} }

WireHeaders(h) == WireFrom(h, {Canon(k) : k \in DOMAIN h})

\* a variant with the upper edge off by one
IsErrorStatus_Edge(statusCode) ==
  statusCode < StatusOK \/ statusCode > StatusMultipleChoices

\* the error flag computed from the status code
IsErrorStatus(statusCode) ==
  statusCode < StatusOK \/ statusCode >= StatusMultipleChoices

\* the name of the target registered for one status code
CustomTarget(code) == "customPrototypes[" \o ToString(code) \o "]"

\* a variant that looks at the error flag before the status-specific targets
unmarshalTo_ErrorFirst(cl) ==
  IF cl.responseIsError
  THEN (IF cl.errorPrototype = "set" THEN "errorPrototype" ELSE "none")
  ELSE IF Get(cl.customPrototypes, cl.statusCode) = "set"
       THEN CustomTarget(cl.statusCode)
       ELSE (IF cl.prototype = "set" THEN "prototype" ELSE "none")

\* the decode target processResponseData picks: its name, or "none" when
\* the one picked is nil
unmarshalTo(cl) ==
  IF Get(cl.customPrototypes, cl.statusCode) = "set" THEN CustomTarget(cl.statusCode)
  ELSE IF cl.responseIsError
       THEN (IF cl.errorPrototype = "set" THEN "errorPrototype" ELSE "none")
       ELSE (IF cl.prototype = "set" THEN "prototype" ELSE "none")

\* a variant that drops the decoder's error
processResponseData_Swallow(cl, payload, contentType) ==
  LET target == unmarshalTo(cl)
      nothing == [err |-> NoErr, saturated |-> {}, rawresponse |-> cl.rawresponse,
                  infoLogs |-> 0]
  IN IF payload = "" \/ target = "none" THEN nothing
     ELSE IF contentType = jsonType
     THEN IF payload = "json" THEN [nothing EXCEPT !.saturated = {target}] ELSE nothing
     ELSE [nothing EXCEPT !.rawresponse = payload, !.infoLogs = 1]

\* processResponseData: the error, the targets it filled, the raw bytes it
\* kept and the info lines it logged
processResponseData(cl, payload, contentType) ==
  LET target == unmarshalTo(cl)
      nothing == [err |-> NoErr, saturated |-> {}, rawresponse |-> cl.rawresponse,
                  infoLogs |-> 0]
  IN IF payload = "" \/ target = "none" THEN nothing
     ELSE IF contentType = jsonType
     THEN IF payload = "json"
          THEN [nothing EXCEPT !.saturated = {target}]
          ELSE [nothing EXCEPT !.err = ErrDecode]
     ELSE [nothing EXCEPT !.rawresponse = payload, !.infoLogs = 1]

\* the status tag statsdReportResponse appends
StatusTag(statusCode) == "status_code:" \o ToString(statusCode)

OutcomeTag(cl, p) ==
  IF cl.responseIsError THEN p.pkgStatsdFailureTag ELSE p.pkgStatsdSuccessTag

statsdReportResponse(cl, p) ==
  Append(Append(cl.statsdTags, StatusTag(cl.statusCode)), OutcomeTag(cl, p))

statsdReportDuration(cl, p) ==
  Append(cl.statsdTags, OutcomeTag(cl, p))

\* a variant without the internalError test of line 294
cleanup_Always(cl, p, k) ==
  [ k EXCEPT
      !.incr = IF cl.statsdClient = "nil" THEN @
               ELSE Append(@, statsdReportResponse(cl, p)),
      !.timing = IF cl.statsdClient = "nil" THEN @
                 ELSE Append(@, statsdReportDuration(cl, p)),
      !.segEnds = IF cl.externalSegment = "zero" THEN @ ELSE @ + 1,
      !.spanFinishes = IF cl.openTracingSpan = "nil" THEN @ ELSE @ + 1 ]

\* cleanup, the deferred end of doInternal: what it adds to the observations.
\* End on the zero ExternalSegment ends nothing; End and Finish on what an
\* earlier call left in the struct end and finish it again
cleanup(cl, p, k) ==
  IF cl.internalError THEN k
  ELSE [ k EXCEPT
           !.incr = IF cl.statsdClient = "nil" THEN @
                    ELSE Append(@, statsdReportResponse(cl, p)),
           !.timing = IF cl.statsdClient = "nil" THEN @
                      ELSE Append(@, statsdReportDuration(cl, p)),
           !.segEnds = IF cl.externalSegment = "zero" THEN @ ELSE @ + 1,
           !.spanFinishes = IF cl.openTracingSpan = "nil" THEN @ ELSE @ + 1 ]

\* the status code failBeforeRequest and failAfterRequest store and return
\* variants that return c.statusCode without storing 500 in it first
failBeforeRequestStatus_Stale(cl) == cl.statusCode

failBeforeRequestStatus(cl) == StatusInternalServerError

failAfterRequestStatus_Stale(cl) == cl.statusCode

failAfterRequestStatus(cl) == StatusInternalServerError

\* a variant that gives up the decode targets with the call
failBeforeRequest_DropsTargets(cl) ==
  [cl EXCEPT !.statusCode = failBeforeRequestStatus(cl), !.internalError = TRUE,
             !.prototype = "nil", !.errorPrototype = "nil",
             !.customPrototypes = NoCodes]

failBeforeRequest(cl) ==
  [cl EXCEPT !.statusCode = failBeforeRequestStatus(cl), !.internalError = TRUE]

\* a variant that takes the failure for an error response
failAfterRequest_MarksError(cl) ==
  [cl EXCEPT !.statusCode = failAfterRequestStatus(cl), !.responseIsError = TRUE]

failAfterRequest(cl) ==
  [cl EXCEPT !.statusCode = failAfterRequestStatus(cl)]

\* a variant without the nil check of line 460
BreakerStatus_NoNilCheck(sc) == sc

\* the status Do returns for what Execute handed back (0 is the nil
\* interface value)
BreakerStatus(sc) == IF sc = 0 THEN StatusFailedDependency ELSE sc


(***************************************************************************)
(* Do and doInternal, one step of the pipeline per action                  *)
(***************************************************************************)
\* Do returns (status, err) to its caller
Return(cl, k, status, err) ==
  /\ c' = cl
  /\ call' = [k EXCEPT !.ret = [kind |-> "return", status |-> status, err |-> err]]
  /\ pc' = "done"
  /\ UNCHANGED <<scenario, pkg, nSetup, newClientRet>>

\* a variant in which Do drops the error that came through the breaker
ReturnInternal_DropsErr(cl, k, status, err) ==
  IF k.viaCB
  THEN Return(cl, [cleanup(cl, pkg, k) EXCEPT !.cbOut = [sc |-> status, err |-> err]],
              BreakerStatus(status), NoErr)
  ELSE Return(cl, cleanup(cl, pkg, k), status, err)

\* doInternal returns (status, err): its deferred cleanup runs, and Do hands
\* the pair on, through Execute when a breaker wraps the call
ReturnInternal(cl, k, status, err) ==
  IF k.viaCB
  THEN Return(cl, [cleanup(cl, pkg, k) EXCEPT !.cbOut = [sc |-> status, err |-> err]],
              BreakerStatus(status), err)
  ELSE Return(cl, cleanup(cl, pkg, k), status, err)

\* a panic unwinds Do: nothing is returned
Panic(cl, k) ==
  /\ c' = cl
  /\ call' = [k EXCEPT !.ret = [kind |-> "panic", status |-> 0, err |-> NoErr]]
  /\ pc' = "crashed"
  /\ UNCHANGED <<scenario, pkg, nSetup, newClientRet>>

\* a variant in which a step of the call stores the client's user agent in
\* the package variable
Continue_WritesPackage(cl, k, next) ==
  /\ c' = cl
  /\ call' = k
  /\ pc' = next
  /\ pkg' = [pkg EXCEPT !.pkgUserAgent = Get(cl.headers, userAgentHeader)]
  /\ UNCHANGED <<scenario, nSetup, newClientRet>>

Continue(cl, k, next) ==
  /\ c' = cl
  /\ call' = k
  /\ pc' = next
  /\ UNCHANGED <<scenario, pkg, nSetup, newClientRet>>

\* the method a convenience verb stores before it calls Do
VerbMethod(verb, method) ==
  CASE verb = "Post"   -> MethodPost
    [] verb = "Put"    -> MethodPut
    [] verb = "Patch"  -> MethodPatch
    [] verb = "Delete" -> MethodDelete
    [] OTHER           -> method

\* a verb is called: Do up to the choice between doInternal and the breaker
Do ==
  /\ Idle
  /\ c.made
  /\ nCalls < MaxCalls
  /\ nCalls' = nCalls + 1
  /\ \E shape \in OfferedShapes(scenario) :
       LET cl == [c EXCEPT !.method = VerbMethod(shape.verb, @)]
           k  == [CallZero EXCEPT !.verb = shape.verb,
                                  !.methodArg = shape.methodArg,
                                  !.payload = shape.payload]
       IN IF cl.endpoint = "nil"
          THEN Return([cl EXCEPT !.internalError = TRUE],
                      [k EXCEPT !.errLogs = @ + 1],
                      StatusInternalServerError, ErrEndpoint)
          ELSE Continue(cl, k, IF cl.cb = "nil" THEN "applyHeaders" ELSE "breaker")

\* what a breaker does with the work function: it runs it and hands its
\* result on, or it is open and hands back a nil result with its own error,
\* or, as the fake of the tests, it hands back a result it was given
BreakerOutcomes == {"runs", "open", "canned"}

\* what the fake breaker of the tests is told to return
CannedResult == [sc |-> StatusOK, err |-> NoErr]

\* cb.Execute
Execute ==
  /\ pc = "breaker"
  /\ UNCHANGED nCalls
  /\ \E outcome \in BreakerOutcomes :
       LET k == [call EXCEPT !.cbExecCalls = @ + 1, !.viaCB = TRUE]
       IN CASE outcome = "runs" -> Continue(c, k, "applyHeaders")
            [] outcome = "open" ->
                 Return(c, [k EXCEPT !.warnLogs = @ + 1,
                                     !.cbOut = [sc |-> 0, err |-> ErrBreakerOpen]],
                        BreakerStatus(0), ErrBreakerOpen)
            [] OTHER ->
                 Return(c, [k EXCEPT !.cbOut = CannedResult],
                        BreakerStatus(CannedResult.sc), CannedResult.err)

\* doInternal, line 331: calling a nil provider function panics
ApplyHeaders ==
  /\ pc = "applyHeaders"
  /\ UNCHANGED nCalls
  /\ IF pkg.pkgRequestIDProviderFunc = "nil"
     THEN Panic(c, call)
     ELSE \E rid \in RequestIDAnswers(pkg.pkgRequestIDProviderFunc, OfferedAnswers(scenario)) :
       IF pkg.pkgRequestSourceProviderFunc = "nil"
       THEN Panic([c EXCEPT !.headers = applyContextDependentHeaders(
                      @, rid, NoAnswer)], [call EXCEPT !.rid = rid])
       ELSE \E src \in RequestSourceAnswers(pkg.pkgRequestSourceProviderFunc,
                                              OfferedAnswers(scenario)) :
              Continue([c EXCEPT !.headers =
                          applyContextDependentHeaders(@, rid, src)],
                       [call EXCEPT !.rid = rid, !.src = src], "encode")

\* doInternal, lines 340-343
Encode ==
  /\ pc = "encode"
  /\ UNCHANGED nCalls
  /\ LET out == processOutgoingPayload(c.headers, call.payload)
         cl  == [c EXCEPT !.headers = out.headers]
     IN IF out.err # NoErr
        THEN ReturnInternal(failBeforeRequest(cl), [call EXCEPT !.errLogs = @ + 1],
                            failBeforeRequestStatus(cl), out.err)
        ELSE Continue(cl, [call EXCEPT !.payloadBytes = out.bytes], "build")

\* doInternal, lines 346-349
Build ==
  /\ pc = "build"
  /\ UNCHANGED nCalls
  /\ IF ~ValidMethod(c.method)
     THEN ReturnInternal(failBeforeRequest(c), [call EXCEPT !.errLogs = @ + 1],
                         failBeforeRequestStatus(c), ErrBadMethod)
     ELSE Continue(c, [call EXCEPT !.built = TRUE, !.wireMethod = c.method],
                   "conform")

\* a variant that logs the failed check and goes on with the request
Conform_LogsOnly ==
  /\ pc = "conform"
  /\ UNCHANGED nCalls
  /\ \E w \in WireHeaders(c.headers) :
       LET k   == [call EXCEPT !.wire = w]
           err == conformsToReq014(c.headers, pkg.pkgStrictREQ014)
       IN Continue(c, [k EXCEPT !.errLogs = @ + (IF err # NoErr THEN 1 ELSE 0)],
                   "preflight")

\* doInternal, lines 352-354
Conform ==
  /\ pc = "conform"
  /\ UNCHANGED nCalls
  /\ \E w \in WireHeaders(c.headers) :
       LET k   == [call EXCEPT !.wire = w]
           err == conformsToReq014(c.headers, pkg.pkgStrictREQ014)
       IN IF err # NoErr
          THEN ReturnInternal(failBeforeRequest(c), [k EXCEPT !.errLogs = @ + 1],
                              failBeforeRequestStatus(c), err)
          ELSE Continue(c, k, "preflight")

\* doInternal, line 361: immediatePreflight
Preflight ==
  /\ pc = "preflight"
  /\ UNCHANGED nCalls
  /\ IF pkg.pkgNRTxnProviderFunc = "nil"
     THEN Panic(c, cleanup(c, pkg, call))
     ELSE \E nrtxOK \in NRTxnAnswers(pkg.pkgNRTxnProviderFunc, OfferedNRTx(scenario)) :
       LET traced == pkg.pkgTracerProviderFunc # "nil"
           cl == [c EXCEPT
                    !.openTracingSpan = IF traced THEN "span" ELSE @,
                    !.externalSegment = IF nrtxOK THEN "started" ELSE @]
           k  == [call EXCEPT
                    !.spanStarts = IF traced THEN @ + 1 ELSE @,
                    !.segStarts = IF nrtxOK THEN @ + 1 ELSE @]
       IN Continue(cl, k, "dispatch")

IsTimeout(err) == err = ErrTimeout

\* a variant that hands the request to the transport again after an error
Dispatch_Retry ==
  /\ pc = "dispatch"
  /\ UNCHANGED nCalls
  /\ \E result \in OfferedResults(scenario) :
       LET k == [call EXCEPT !.transportCalls = @ + (IF result.err # NoErr THEN 2 ELSE 1),
                             !.response = result.response,
                             !.responseErr = result.err]
       IN IF ~result.response.present
          THEN Panic(c, cleanup(c, pkg, k))
          ELSE LET cl == [c EXCEPT
                            !.statusCode = result.response.status,
                            !.responseIsError = IsErrorStatus(result.response.status)]
               IN IF result.err # NoErr
                  THEN ReturnInternal(failAfterRequest(cl),
                         [k EXCEPT !.errLogs = @ + (IF IsTimeout(result.err) THEN 2 ELSE 1)],
                         failAfterRequestStatus(cl), result.err)
                  ELSE Continue(cl, k, "read")

\* doInternal, lines 364-393
Dispatch ==
  /\ pc = "dispatch"
  /\ UNCHANGED nCalls
  /\ \E result \in OfferedResults(scenario) :
       LET k == [call EXCEPT !.transportCalls = @ + 1,
                             !.response = result.response,
                             !.responseErr = result.err]
       IN IF ~result.response.present
          THEN \* line 369 reads the status code of a nil response
               Panic(c, cleanup(c, pkg, k))
          ELSE LET cl == [c EXCEPT
                            !.statusCode = result.response.status,
                            !.responseIsError = IsErrorStatus(result.response.status)]
               IN IF result.err # NoErr
                  THEN ReturnInternal(failAfterRequest(cl),
                         [k EXCEPT !.errLogs = @ + (IF IsTimeout(result.err) THEN 2 ELSE 1)],
                         failAfterRequestStatus(cl), result.err)
                  ELSE Continue(cl, k, "read")

\* a variant that never keeps the body
keptRawResponse_Never(cl, body) == cl.rawresponse

\* lines 412-414: the body is kept only when the caller asked for it
keptRawResponse(cl, body) == IF cl.keepRawResponse THEN body ELSE cl.rawresponse

\* doInternal, lines 406-414
ReadBody ==
  /\ pc = "read"
  /\ UNCHANGED nCalls
  /\ \E readOK \in OfferedReads(scenario) :
       IF ~readOK
       THEN ReturnInternal(failAfterRequest(c), [call EXCEPT !.errLogs = @ + 1],
                           failAfterRequestStatus(c), ErrRead)
       ELSE Continue([c EXCEPT !.rawresponse = keptRawResponse(c, call.response.body)],
                     [call EXCEPT !.body = call.response.body], "process")

\* doInternal, lines 416-424
Process ==
  /\ pc = "process"
  /\ UNCHANGED nCalls
  /\ LET out == processResponseData(c, call.body, Get(call.wire, contentTypeHeader))
         cl  == [c EXCEPT !.rawresponse = out.rawresponse]
         k   == [call EXCEPT !.saturated = out.saturated,
                             !.infoLogs = @ + out.infoLogs]
     IN IF out.err # NoErr
        THEN ReturnInternal(failAfterRequest(cl), [k EXCEPT !.errLogs = @ + 1],
                            failAfterRequestStatus(cl), out.err)
        ELSE ReturnInternal(cl, k, cl.statusCode, NoErr)

\* a variant without the test of keepRawResponse
RawResponse_NoFlag(cl) == cl.rawresponse

\* RawResponse
RawResponse(cl) == IF cl.keepRawResponse THEN cl.rawresponse ELSE ""

\* the caller reads RawResponse(): what it got is noted with the retention
\* flag of the moment
ReadRawResponse ==
  /\ Idle
  /\ c.made
  /\ scenario = "decode"
  /\ Len(call.rawReads) < MaxReads
  /\ call' = [call EXCEPT !.rawReads =
                Append(@, [kept |-> c.keepRawResponse, bytes |-> RawResponse(c)])]
  /\ UNCHANGED <<scenario, pkg, c, pc, nSetup, nCalls, newClientRet>>

\* StatusCodeIsError
StatusCodeIsError(cl) == cl.responseIsError

Next ==
  \/ SetDefaults
  \/ NewClient
  \/ SetHeader
  \/ SetContentType
  \/ KeepRawResponse
  \/ WillSaturate
  \/ WillSaturateOnError
  \/ WillSaturateWithStatusCode
  \/ SetCircuitBreaker
  \/ SetStatsdDelegate
  \/ ClearEndpoint
  \/ WriteBadMethod
  \/ DeleteCallingService
  \/ Do
  \/ Execute
  \/ ApplyHeaders
  \/ Encode
  \/ Build
  \/ Conform
  \/ Preflight
  \/ Dispatch
  \/ ReadBody
  \/ Process
  \/ ReadRawResponse

Spec == Init /\ [][Next]_vars

(***************************************************************************)
(* Properties of the header gate                                           *)
(***************************************************************************)
MandatedHeaders == {requestIDHeader, requestSourceHeader, callingServiceHeader}

\* some mandated key is not in the header map
LacksMandated(h) == ~(MandatedHeaders \subseteq DOMAIN h)

\* some mandated key is in the header map with the empty string
BlankMandated(h) == \E k \in MandatedHeaders : Has(h, k) /\ h[k] = ""

Returned(status, err) == [kind |-> "return", status |-> status, err |-> err]

\* the request headers w are the header map h as http.Header holds it: the
\* canonical forms of h's keys, each with a value h gives a key of that form
WireMatches(w, h) ==
  /\ DOMAIN w = {Canon(k) : k \in DOMAIN h}
  /\ \A ck \in DOMAIN w : \E k \in DOMAIN h : Canon(k) = ck /\ w[ck] = h[k]

\* C1: in strict mode, a call whose header map lacks Request-ID,
\* Request-Source or Calling-Service when the request is built returns 500
\* with the error "request tracing header requirements check failed", and
\* the transport is not invoked for that call.
C1_StrictMissingFails ==
  [][ (pc = "conform" /\ pkg.pkgStrictREQ014 /\ LacksMandated(c.headers))
        => /\ pc' = "done"
           /\ call'.ret = Returned(500, "request tracing header requirements check failed")
           /\ call'.transportCalls = 0 ]_vars

C1_Witness ==
  /\ pc = "done"
  /\ pkg.pkgStrictREQ014
  /\ call.built
  /\ LacksMandated(c.headers)
  /\ call.ret.err = ErrReq014
  /\ call.transportCalls = 0

\* C2: when strict mode is off, whichever of the mandated headers are
\* missing, the gate returns no error, the call goes on to the transport,
\* and the request the transport is handed carries exactly the header map.
C2_NonStrictPasses ==
  [][ /\ (pc = "conform" /\ ~pkg.pkgStrictREQ014)
         => (pc' = "preflight" /\ call'.ret = NoRet
             /\ WireMatches(call'.wire, c.headers))
      /\ (pc = "dispatch" /\ ~pkg.pkgStrictREQ014)
         => (call'.transportCalls = 1 /\ WireMatches(call.wire, c.headers)) ]_vars

C2_Witness ==
  /\ pc = "read"
  /\ ~pkg.pkgStrictREQ014
  /\ LacksMandated(c.headers)
  /\ call.transportCalls = 1
  /\ call.ret = NoRet

\* C3: in strict mode, a call whose header map holds a mandated header with
\* the empty string as its value fails with the error "request tracing
\* header requirements check failed", as if the header were missing.
C3_StrictBlankFails ==
  [][ (pc = "conform" /\ pkg.pkgStrictREQ014 /\ BlankMandated(c.headers))
        => /\ pc' = "done"
           /\ call'.ret = Returned(500, "request tracing header requirements check failed")
           /\ call'.transportCalls = 0 ]_vars

(***************************************************************************)
(* Properties of the response handling                                     *)
(***************************************************************************)
InSuccessRange(status) == status >= 200 /\ status < 300

\* the target the precedence rule names for a status code
ExpectedTarget(cl, status) ==
  IF status \in DOMAIN cl.customPrototypes /\ cl.customPrototypes[status] # "nil"
  THEN CustomTarget(status)
  ELSE IF InSuccessRange(status) THEN "prototype" ELSE "errorPrototype"

\* the caller registered that target
Registered(cl, target) ==
  CASE target = "prototype"      -> cl.prototype # "nil"
    [] target = "errorPrototype" -> cl.errorPrototype # "nil"
    [] OTHER                     -> TRUE

\* C4: for a response with a body, the only target that can be filled is the
\* one registered for exactly the status code, else the error target when
\* the status is outside [200,300), else the success target; it is filled
\* when it is registered and the body decodes, and no other target is.
C4_TargetPrecedence ==
  [][ (pc = "process" /\ call.body # "")
        => LET target == ExpectedTarget(c, call.response.status)
           IN /\ call'.saturated \subseteq {target}
              /\ (/\ Registered(c, target)
                  /\ call.body = "json"
                  /\ Get(call.wire, contentTypeHeader) = jsonType)
                 => call'.saturated = {target} ]_vars

C4_Witness ==
  /\ pc = "done"
  /\ call.response.status = 403
  /\ c.errorPrototype = "set"
  /\ call.saturated = {CustomTarget(403)}

C6_PreDispatchFailure ==
  [][ /\ (pc \in {"encode", "build", "conform"} /\ pc' = "done")
         => /\ call'.ret.kind = "return"
            /\ call'.ret.status = 500
            /\ call'.ret.err # NoErr
            /\ call'.transportCalls = 0
      /\ (nCalls' = nCalls + 1 /\ c.endpoint = "nil")
         => /\ pc' = "done"
            /\ call'.ret = Returned(500, "endpoint for request not set")
            /\ call'.transportCalls = 0
            /\ call'.cbExecCalls = 0 ]_vars

C6_Witness ==
  /\ pc = "done"
  /\ c.endpoint = "nil"
  /\ c.cb = "set"
  /\ call.ret = Returned(500, ErrEndpoint)
  /\ call.cbExecCalls = 0
  /\ call.transportCalls = 0

\* C7: when the transport hands back an error and no response, a timeout
\* included, the call returns 500 with that error; it does not crash.
C7_TransportFailureReturns ==
  (call.transportCalls = 1 /\ ~call.response.present /\ call.responseErr # NoErr)
    => (pc = "done" /\ call.ret = Returned(500, call.responseErr))

C9_DecodeFailure ==
  [][ (/\ pc = "process"
       /\ call.body = "notjson"
       /\ Registered(c, ExpectedTarget(c, call.response.status))
       /\ Get(call.wire, contentTypeHeader) = jsonType)
        => /\ pc' = "done"
           /\ call'.ret.kind = "return"
           /\ call'.ret.status = 500
           /\ call'.ret.err # NoErr ]_vars

C9_Witness ==
  /\ pc = "done"
  /\ call.response.status = 200
  /\ call.body = "notjson"
  /\ call.ret = Returned(500, ErrDecode)

\* a call that got a response from the transport with no error and then
\* failed: the body could not be read, or not decoded
FailedAfterResponse ==
  /\ pc = "done"
  /\ call.response.present
  /\ call.responseErr = NoErr
  /\ call.ret.err # NoErr

\* C10 as stated: a failure after a status code was received returns the
\* status code the server sent.
C10_ReceivedStatusKept ==
  FailedAfterResponse => call.ret.status = call.response.status

\* C10: a failure after a status code was received (body not readable, body
\* not decodable) returns 500 with the error, whatever status was received.
C10_FailureAfterResponseIs500 ==
  FailedAfterResponse
    => /\ call.ret.kind = "return"
       /\ call.ret.status = 500
       /\ call.ret.err \in {ErrRead, ErrDecode}

C10_Witness ==
  /\ FailedAfterResponse
  /\ call.response.status = 403
  /\ call.ret = Returned(500, ErrRead)

(***************************************************************************)
(* Properties of a response that is not JSON                               *)
(***************************************************************************)
\* C11: when a response with a body that is not JSON and the content type
\* text/html arrives while a decode target is set and KeepRawResponse was
\* not called, Do returns a nil error, no target is filled and
\* RawResponse() then returns the bytes of the response body.
C11_NonJSONKeptRaw ==
  [][ (/\ pc = "process"
       /\ call.body = "notjson"
       /\ call.response.ct = htmlType
       /\ Registered(c, ExpectedTarget(c, call.response.status))
       /\ ~c.keepRawResponse)
        => /\ pc' = "done"
           /\ call'.ret.kind = "return"
           /\ call'.ret.err = NoErr
           /\ call'.saturated = {}
           /\ RawResponse(c') = call.response.body ]_vars

\* C12: when a 200 response with a body carries a content type that is not
\* JSON while the success target is set, Do returns 422 with a nil error.
C12_NonJSONIs422 ==
  [][ (/\ pc = "process"
       /\ call.response.status = 200
       /\ call.body # ""
       /\ call.response.ct # jsonType
       /\ c.prototype = "set")
        => /\ pc' = "done"
           /\ call'.ret = Returned(422, NoErr) ]_vars

(***************************************************************************)
(* Properties of the metrics and the tracing                               *)
(***************************************************************************)
\* C13: a call that invoked the transport and returns has called Incr once
\* and Timing once when a metrics delegate is set, and neither when none is.
C13_MetricsOncePerExchange ==
  [][ (pc \notin {"idle", "done", "crashed"} /\ pc' = "done" /\ call'.transportCalls = 1)
        => IF c.statsdClient # "nil"
           THEN Len(call'.incr) = 1 /\ Len(call'.timing) = 1
           ELSE call'.incr = <<>> /\ call'.timing = <<>> ]_vars

\* the tags of a completed exchange: the configured tags, the status code,
\* then the success or the failure tag
ExchangeTags(cl, p, status) ==
  cl.statsdTags \o
    << "status_code:" \o ToString(status),
       IF InSuccessRange(status) THEN p.pkgStatsdSuccessTag ELSE p.pkgStatsdFailureTag >>

\* C14: for a completed exchange, Timing is passed the tag list Incr is
\* passed: the configured tags, then status_code:<code>, then the success
\* tag for a status in [200,300) and the failure tag otherwise.
C14_TimingTagsAsIncr ==
  [][ (/\ pc = "process" /\ pc' = "done"
       /\ c.statsdClient # "nil"
       /\ call'.ret.err = NoErr)
        => /\ call'.incr = <<ExchangeTags(c, pkg, call.response.status)>>
           /\ call'.timing = call'.incr ]_vars

\* a call ends before the transport was reached
FailsBeforeNetwork ==
  /\ pc' = "done"
  /\ call'.ret.err # NoErr
  /\ \/ pc \in {"encode", "build", "conform"}
     \/ nCalls' = nCalls + 1

\* C15: a call that fails before the network call (no endpoint, payload not
\* encodable, request not constructible, header check) calls neither Incr
\* nor Timing, starts and finishes no span and no segment, and writes an
\* error log entry.
C15_NoMetricsBeforeNetwork ==
  [][ FailsBeforeNetwork
        => /\ call'.incr = <<>>
           /\ call'.timing = <<>>
           /\ call'.segStarts = 0 /\ call'.segEnds = 0
           /\ call'.spanStarts = 0 /\ call'.spanFinishes = 0
           /\ call'.errLogs >= 1 ]_vars

C15_Witness ==
  /\ pc = "done"
  /\ c.statsdClient # "nil"
  /\ call.payload = "func"
  /\ call.ret = Returned(500, ErrMarshal)
  /\ call.incr = <<>>
  /\ call.segEnds = 0
  /\ call.errLogs = 1

(***************************************************************************)
(* Properties of the payload codec                                         *)
(***************************************************************************)
\* the bytes a string or []byte payload value consists of
ContentOf(payload) == IF payload = "string" THEN "ab" ELSE "\"t\""

\* the JSON text of a payload value that has one
JSONOf(payload) ==
  IF payload = "struct" THEN "{}"
  ELSE IF payload = "string" THEN "\"ab\"" ELSE "\"InQi\""

\* C16: a nil payload is not encoded and gives no error; under the content
\* type application/json the payload is serialised as JSON and a failure to
\* serialise is the error returned; under any other content type a []byte
\* payload is passed through, a string becomes its bytes, and any other
\* type gives the error "the payload cannot be converted to a byte slice".
C16_PayloadEncoding ==
  [][ pc = "encode"
        => IF call.payload = "nil"
           THEN pc' = "build" /\ call'.payloadBytes = ""
           ELSE IF Get(c.headers, contentTypeHeader) = "application/json"
           THEN IF call.payload = "func"
                THEN pc' = "done" /\ call'.ret = Returned(500, ErrMarshal)
                ELSE pc' = "build" /\ call'.payloadBytes = JSONOf(call.payload)
           ELSE IF call.payload \in {"string", "bytes"}
                THEN pc' = "build" /\ call'.payloadBytes = ContentOf(call.payload)
                ELSE /\ pc' = "done"
                     /\ call'.ret = Returned(500,
                          "the payload cannot be converted to a byte slice") ]_vars

C16_Witness ==
  /\ pc = "build"
  /\ Get(c.headers, contentTypeHeader) = textType
  /\ call.payload = "string"
  /\ call.payloadBytes = "ab"

\* C17: when a payload that is not nil is encoded, Content-Length is set to
\* the decimal count of the encoded bytes; when the payload is nil or the
\* encoding fails, the encode step leaves the header map as it was.
C17_ContentLength ==
  [][ pc = "encode"
        => c'.headers =
             IF call.payload # "nil" /\ pc' = "build"
             THEN Put(c.headers, "Content-Length", ToString(Len(call'.payloadBytes)))
             ELSE c.headers ]_vars

C17_Witness ==
  /\ pc = "build"
  /\ call.payload = "bytes"
  /\ Get(c.headers, contentTypeHeader) = textType
  /\ call.payloadBytes = "\"t\""
  /\ Get(c.headers, contentLengthHeader) = "3"

(***************************************************************************)
(* Properties of the raw response and of the header setters                *)
(***************************************************************************)
\* the reads made since the last request agree: without retention every
\* one is empty, with retention any two gave the same bytes
ReadsAgree(reads) ==
  /\ \A i \in DOMAIN reads : ~reads[i].kept => reads[i].bytes = ""
  /\ \A i, j \in DOMAIN reads :
       (reads[i].kept /\ reads[j].kept) => reads[i].bytes = reads[j].bytes

C19_RawResponseIsBody ==
  [][ (pc = "process" /\ pc' = "done" /\ c.keepRawResponse)
        => RawResponse(c') = call.response.body ]_vars

C19_Witness ==
  /\ pc = "done"
  /\ c.keepRawResponse
  /\ call.response.body = "notjson"
  /\ call.ret = Returned(500, ErrDecode)
  /\ RawResponse(c) = "notjson"

\* what SetContentType(ct) makes of the header map h
ContentTypeSet(h, hNew, ct) ==
  /\ Has(hNew, "Content-Type") /\ hNew["Content-Type"] = ct
  /\ IF ct = "application/json"
     THEN Has(hNew, "Accept") /\ hNew["Accept"] = "application/json"
     ELSE ~Has(hNew, "Accept")
  /\ \A k \in (DOMAIN h \cup DOMAIN hNew) \ {"Content-Type", "Accept"} :
       Has(h, k) /\ Has(hNew, k) /\ hNew[k] = h[k]

\* what SetHeader(key, value) makes of h for a key other than Content-Type
OtherHeaderSet(h, hNew, key, value) ==
  /\ DOMAIN hNew = DOMAIN h \cup {key}
  /\ hNew[key] = value
  /\ \A k \in DOMAIN h \ {key} : hNew[k] = h[k]

\* C20: SetContentType(ct), called directly or as SetHeader("Content-Type",
\* ct), sets Content-Type to ct, removes Accept when ct is not
\* application/json and sets Accept to application/json when it is, so
\* Content-Type application/json implies Accept is present; SetHeader with
\* another key changes that key only.
C20_ContentTypeAndAccept ==
  [][ /\ SetContentType
         => \E ct \in OfferedContentTypes(scenario) :
              ContentTypeSet(c.headers, c'.headers, ct)
      /\ SetHeader
         => \E kv \in OfferedHeaders(scenario) :
              IF kv[1] = "Content-Type"
              THEN ContentTypeSet(c.headers, c'.headers, kv[2])
              ELSE OtherHeaderSet(c.headers, c'.headers, kv[1], kv[2])
      /\ (c'.made /\ Get(c'.headers, "Content-Type") = "application/json")
         => Has(c'.headers, "Accept") ]_vars

C20_Witness ==
  /\ pc = "idle"
  /\ nSetup = 2
  /\ Get(c.headers, contentTypeHeader) = textType
  /\ ~Has(c.headers, acceptHeader)
  /\ Has(c.headers, callingServiceHeader)

(***************************************************************************)
(* Properties of the verbs                                                 *)
(***************************************************************************)
\* C21: the request a call builds carries the method of the verb that was
\* called, and for Do the method it was given: Get sends GET, whatever verb
\* the client was used with before, Post POST, Put PUT, Patch PATCH and
\* Delete DELETE.
C21_VerbSendsItsMethod ==
  [][(pc = "build" /\ pc' = "conform") => call'.wireMethod = call.methodArg]_vars

(***************************************************************************)
(* Properties of NewClient                                                 *)
(***************************************************************************)
\* the header map of a new client, from the package variables p
InitialHeaders(p) ==
  [ k \in {userAgentHeader, contentTypeHeader, callingServiceHeader, acceptHeader} |->
      CASE k = userAgentHeader      -> p.pkgUserAgent
        [] k = callingServiceHeader -> p.pkgServiceName
        [] OTHER                    -> jsonType ]

\* C22: NewClient with a URI that parses returns, with a nil error, a client
\* whose header map is exactly User-Agent, Content-Type, Calling-Service and
\* Accept with the package's values and whose method is GET; with a URI that
\* does not parse it returns no client and an error.  Either way the lazy
\* fill has run when it returns.
C22_NewClientResult ==
  [][NewClient =>
       /\ pkg'.pkgOnce
       /\ newClientRet'.uri = GoodURI =>
            /\ newClientRet'.err = NoErr
            /\ c'.made
            /\ c'.headers = InitialHeaders(pkg')
            /\ c'.method = MethodGet
       /\ newClientRet'.uri = EmptyURI =>
            /\ newClientRet'.err # NoErr
            /\ ~c'.made]_vars

\* NewClient("") has returned its error, the defaults filled, no client made
C22_Witness ==
  /\ newClientRet = [uri |-> EmptyURI, err |-> ErrEmptyURL]
  /\ pkg.pkgOnce
  /\ ~c.made

(***************************************************************************)
(* Properties of the request ID                                            *)
(***************************************************************************)
\* C23: with no RequestIDProviderFunc configured, a call does not put a
\* Request-ID header into a header map the caller has not put one into, so
\* that the request goes out without it and the strict gate rejects it.
C23_NoProviderNoRequestID ==
  [][(/\ pc = "applyHeaders"
      /\ pkg.pkgRequestIDProviderFunc # "custom"
      /\ ~Has(c.headers, requestIDHeader))
     => ~Has(c'.headers, requestIDHeader)]_vars

(***************************************************************************)
(* Properties of the decode targets on a failure at the caller's side      *)
(***************************************************************************)
\* the decode targets registered on a client
Targets(cl) == <<cl.prototype, cl.errorPrototype, cl.customPrototypes>>

\* this step ends a call that has not got a response to read: in Do itself,
\* in the breaker, or in doInternal up to and including the dispatch
EndsBeforeResponseRead ==
  /\ pc' \in {"done", "crashed"}
  /\ \/ nCalls' # nCalls
     \/ pc \in {"breaker", "applyHeaders", "encode", "build", "conform",
                "preflight", "dispatch"}

\* C24: a call that fails at the caller's side (nil endpoint, encode
\* failure, request construction failure, compliance failure, transport
\* error) decodes into none of the registered targets and leaves them
\* registered as they were.
C24_CallerSideFailureKeepsTargets ==
  [][EndsBeforeResponseRead =>
       /\ call'.saturated = {}
       /\ Targets(c') = Targets(c)]_vars

\* a call with a success target registered has failed to encode its payload
C24_Witness ==
  /\ pc = "done"
  /\ c.prototype = "set"
  /\ call.ret = Returned(StatusInternalServerError, ErrMarshal)
  /\ call.saturated = {}

(***************************************************************************)
(* Properties of the request handed to the transport                       *)
(***************************************************************************)
\* C25: the request a call hands to the transport, from a client whose
\* header map was written by NewClient and the setters only, carries
\* User-Agent, Content-Type and Calling-Service, every key of the client's
\* header map with its value, Accept: application/json when the content type
\* is application/json, and Content-Length exactly when the call was given a
\* payload.
C25_RequestCarriesHeaders ==
  (pc = "dispatch" /\ Has(c.headers, callingServiceHeader)) =>
    /\ {userAgentHeader, contentTypeHeader, callingServiceHeader}
         \subseteq DOMAIN call.wire
    /\ \A k \in DOMAIN c.headers :
         Has(call.wire, Canon(k)) /\ call.wire[Canon(k)] = c.headers[k]
    /\ Get(c.headers, contentTypeHeader) = jsonType =>
         Get(call.wire, acceptHeader) = jsonType
    /\ Has(call.wire, contentLengthHeader) <=> call.payload # "nil"

(***************************************************************************)
(* Properties of the error returned with a substituted status              *)
(***************************************************************************)
\* Do returned a status it put there itself: 500 or 424, and not the status
\* of a response it received
SubstitutedStatus ==
  /\ call.ret.kind = "return"
  /\ call.ret.status \in {StatusInternalServerError, StatusFailedDependency}
  /\ ~(call.response.present /\ call.response.status = call.ret.status)

CallStep == nCalls' # nCalls \/ pc \notin {"idle", "done", "crashed"}

Fillable ==
  [ pkgServiceName |-> "", pkgUserAgent |-> "",
    pkgNRTxnProviderFunc |-> "nil", pkgCtxLoggerProviderFunc |-> "nil",
    pkgRequestIDProviderFunc |-> "nil", pkgRequestSourceProviderFunc |-> "nil",
    pkgStatsdSuccessTag |-> "", pkgStatsdFailureTag |-> "" ]

\* from p to q only unset fillable variables have changed, and the once flag
OnlyUnsetReplaced(p, q) ==
  \A f \in DOMAIN p :
    \/ q[f] = p[f]
    \/ f = "pkgOnce"
    \/ f \in DOMAIN Fillable /\ p[f] = Fillable[f]

DecodeAttempted == call'.saturated # {} \/ call'.ret.err = ErrDecode

\* C29: for a response with a body and a target resolved for it, the JSON
\* decoder is run exactly when the Content-Type of the response is
\* application/json, whatever content type the client sends: the decode
\* outcome is fixed by the response and the targets.
C29_DecodeFollowsResponseType ==
  [][(pc = "process" /\ call.body # "" /\ unmarshalTo(c) # "none")
     => (DecodeAttempted <=> call.response.ct = jsonType)]_vars

(***************************************************************************)
(* Properties of the tracing span and the external segment                 *)
(***************************************************************************)
\* C30: when a call that reached the transport returns (success, transport
\* error, body-read error or decode error), it has finished the span and
\* ended the segment it started exactly once each, and none it did not
\* start.
C30_StartedThenFinished ==
  [][(pc \notin {"idle", "done"} /\ pc' = "done" /\ call'.transportCalls = 1)
     => /\ call'.segEnds = call'.segStarts
        /\ call'.spanFinishes = call'.spanStarts]_vars

(***************************************************************************)
(* Properties of the number of transport invocations                       *)
(***************************************************************************)
\* C31: a call hands its request to the transport at most once, and only in
\* the dispatch step of the pipeline, which hands it over exactly once; on
\* a client with a breaker that step runs inside the function Execute was
\* given; and when Execute comes back without having run the function, the
\* transport was not invoked and Do returns what Execute handed back, the
\* error unchanged and the status unchanged where there is one.
C31_NoRetry ==
  [][/\ call'.transportCalls <= 1
     /\ (nCalls' = nCalls /\ call'.transportCalls # call.transportCalls)
          => pc = "dispatch" /\ (c.cb # "nil" => call.viaCB /\ call.cbExecCalls = 1)
     /\ pc = "dispatch" => call'.transportCalls = 1
     /\ (pc = "breaker" /\ pc' = "done")
          => /\ call'.transportCalls = 0
             /\ call'.ret.kind = "return"
             /\ call'.ret.err = call'.cbOut.err
             /\ call'.cbOut.sc # 0 => call'.ret.status = call'.cbOut.sc]_vars

\* a call through the breaker has returned the server's answer after one
\* transport invocation
C31_Witness ==
  /\ pc = "done"
  /\ call.viaCB
  /\ call.cbExecCalls = 1
  /\ call.transportCalls = 1
  /\ call.ret = Returned(StatusOK, NoErr)

(***************************************************************************)
(* Properties of the order of the pipeline                                 *)
(***************************************************************************)
\* the step that follows each step of the pipeline
StepAfter ==
  [ s \in {"applyHeaders", "encode", "build", "conform", "preflight",
           "dispatch", "read", "process"} |->
      CASE s = "applyHeaders" -> "encode"
        [] s = "encode"       -> "build"
        [] s = "build"        -> "conform"
        [] s = "conform"      -> "preflight"
        [] s = "preflight"    -> "dispatch"
        [] s = "dispatch"     -> "read"
        [] s = "read"         -> "process"
        [] OTHER              -> "done" ]

\* C32: the steps of one execution of the pipeline come in the order apply
\* headers, encode, build, compliance check, instrumentation, dispatch, read
\* body, decode; a step that fails ends the execution, and nothing runs
\* after it but a new call; the transport is handed no request the strict
\* check would reject; and a payload that cannot be encoded is answered with
\* the encoder's error, also when a mandated header is missing.
C32_PipelineOrder ==
  [][/\ pc \in DOMAIN StepAfter
          => /\ pc' \in {StepAfter[pc], "done", "crashed"}
             /\ pc' \notin {"done", "crashed"} => call'.ret.kind = "none"
             /\ call'.ret.kind = "return" => pc' = "done"
     /\ (pc \in {"done", "crashed"} /\ pc' \in DOMAIN StepAfter)
          => nCalls' = nCalls + 1
     /\ (pc = "dispatch" /\ pkg.pkgStrictREQ014) => ~LacksMandated(c.headers)
     /\ (pc = "encode" /\ call.payload = "func")
          => /\ pc' = "done"
             /\ call'.ret.status = StatusInternalServerError
             /\ call'.ret.err \in {ErrMarshal, ErrByteSlice}
             /\ call'.transportCalls = 0]_vars

\* in strict mode, with a mandated header missing, the call has returned the
\* encoder's error
C32_Witness ==
  /\ pc = "done"
  /\ pkg.pkgStrictREQ014
  /\ LacksMandated(c.headers)
  /\ call.payload = "func"
  /\ call.ret = Returned(StatusInternalServerError, ErrMarshal)

(***************************************************************************)
(* Properties of the providers a call finds                                *)
(***************************************************************************)
\* C33: whatever the order of SetDefaults, NewClient and Do, the request-id,
\* request-source and New Relic transaction providers are not nil while a
\* call runs the pipeline.
C33_ProvidersNeverNil ==
  pc \in {"applyHeaders", "encode", "build", "conform", "preflight"} =>
    /\ pkg.pkgRequestIDProviderFunc # "nil"
    /\ pkg.pkgRequestSourceProviderFunc # "nil"
    /\ pkg.pkgNRTxnProviderFunc # "nil"

(***************************************************************************)
(* Properties of the context dependent headers                             *)
(***************************************************************************)
\* the entry of key is the same in the maps h and hNew
SameEntry(h, hNew, key) ==
  /\ Has(hNew, key) <=> Has(h, key)
  /\ Get(hNew, key) = Get(h, key)

\* the entry of key in hNew is as answer a of its provider has it: the
\* provider's value when it reported one, the entry of h otherwise
EntryFollows(h, hNew, key, a) ==
  IF a.ok THEN Has(hNew, key) /\ hNew[key] = a.value
          ELSE SameEntry(h, hNew, key)

\* C34: the first step of the pipeline sets Request-ID and Request-Source to
\* the value the provider reports as present, over a value the caller has
\* set, leaves the entry as it was (absent, or the caller's value) when the
\* provider reports none, touches no other header, and the request goes on.
C34_ProviderHeaders ==
  [][pc = "applyHeaders" =>
       /\ (pkg.pkgRequestIDProviderFunc # "nil"
             /\ pkg.pkgRequestSourceProviderFunc # "nil") => pc' = "encode"
       /\ pc' = "encode" =>
            /\ EntryFollows(c.headers, c'.headers, requestIDHeader, call'.rid)
            /\ EntryFollows(c.headers, c'.headers, requestSourceHeader, call'.src)
            /\ \A k \in (DOMAIN c.headers \cup DOMAIN c'.headers)
                          \ {requestIDHeader, requestSourceHeader} :
                 SameEntry(c.headers, c'.headers, k)]_vars

\* the request-id provider reported a value, the request-source provider
\* none: the map has the provider's Request-ID and the caller's
\* Request-Source
C34_Witness ==
  /\ pc = "encode"
  /\ call.rid = [value |-> "prov", ok |-> TRUE]
  /\ ~call.src.ok
  /\ Get(c.headers, requestIDHeader) = "prov"
  /\ Get(c.headers, requestSourceHeader) = "caller"

(***************************************************************************)
(* Properties of the error log                                             *)
(***************************************************************************)
\* this step ends a call in one of the failures of the list: a nil endpoint
\* (in Do itself), an encode, request construction or compliance failure, a
\* transport error or timeout, a body-read or a decode error
EndsInListedFailure ==
  /\ pc' \in {"done", "crashed"}
  /\ call'.ret.kind = "panic" \/ call'.ret.err # NoErr
  /\ \/ nCalls' # nCalls
     \/ pc \in {"encode", "build", "conform", "dispatch", "read", "process"}

\* C35: a call that fails in one of these ways has written exactly one
\* error-level log entry when it ends.
C35_OneErrorLog ==
  [][EndsInListedFailure => call'.errLogs = 1]_vars

(***************************************************************************)
(* Properties of a decode failure on a success response                    *)
(***************************************************************************)
\* the last tag of a metric: the success or failure tag
LastTag(tags) == tags[Len(tags)]

\* C36: when the decode of a response with a status in [200,300) fails, Do
\* returns the error, StatusCodeIsError() stays false, and the counter and
\* the timing emitted for the exchange carry the success tag.
C36_DecodeFailureKeepsSuccess ==
  [][(/\ pc = "process"
      /\ InSuccessRange(call.response.status)
      /\ call'.ret.err = ErrDecode)
     => /\ pc' = "done"
        /\ ~StatusCodeIsError(c')
        /\ \A i \in DOMAIN call'.incr :
             LastTag(call'.incr[i]) = pkg.pkgStatsdSuccessTag
        /\ \A i \in DOMAIN call'.timing :
             LastTag(call'.timing[i]) = pkg.pkgStatsdSuccessTag]_vars

\* a 200 whose body did not decode: the error is returned, the flag is
\* false, one counter and one timing were emitted
C36_Witness ==
  /\ pc = "done"
  /\ call.response.status = StatusOK
  /\ call.ret = Returned(StatusInternalServerError, ErrDecode)
  /\ ~c.responseIsError
  /\ Len(call.incr) = 1
  /\ Len(call.timing) = 1

(***************************************************************************)
(* Termination of a call                                                   *)
(***************************************************************************)
\* a step of the call in progress
PipelineStep ==
  \/ Execute \/ ApplyHeaders \/ Encode \/ Build \/ Conform
  \/ Preflight \/ Dispatch \/ ReadBody \/ Process

\* the transport, the body read and the breaker return: a call in progress
\* is not left waiting for ever
SpecLive == Spec /\ WF_vars(PipelineStep)

\* C37: every call in progress comes to return a status and an error to its
\* caller, for every outcome of every step.
C37_CallReturns ==
  (pc \notin {"idle", "done"}) ~> (pc = "done" /\ call.ret.kind = "return")

(***************************************************************************)
(* Properties of a client used again                                       *)
(***************************************************************************)
\* C38: nothing of one call is left for the next on the client: a call that
\* is not the client's first and has reached the network returns having
\* emitted its counter and its timing once each, where a statsd delegate is
\* set, and having finished the span and ended the segment it started, as
\* the first call of a client does; and it starts without the internal
\* error mark of a call before it.
C38_NoStateAcrossCalls ==
  [][/\ (nCalls' = nCalls + 1 /\ pc' \notin {"idle", "done"}) => ~c'.internalError
     /\ (/\ nCalls >= 2
         /\ pc \notin {"idle", "done"}
         /\ pc' = "done"
         /\ call'.transportCalls = 1)
        => /\ c.statsdClient # "nil" =>
                Len(call'.incr) = 1 /\ Len(call'.timing) = 1
           /\ call'.spanFinishes = call'.spanStarts
           /\ call'.segEnds = call'.segStarts]_vars

(***************************************************************************)
(* Properties of the headers as a function of the header map               *)
(***************************************************************************)
\* C39: the headers put on the request are fixed by the header map the
\* setters have built: the request the compliance step leaves is the only
\* one the map allows, also when the map holds a key in another letter case
\* next to the canonical one.
C39_HeadersDetermined ==
  [][pc = "conform" => WireHeaders(c.headers) = {call'.wire}]_vars

=============================================================================
